---- MODULE Spec2Model ----
(***************************************************************************)
(* Verification model of shahinabdi/PythonRefresher:                       *)
(*   src/BankingSystem_Complete.py  (Transaction, AccountHolder, Account,  *)
(*                                   CheckingAccount, SavingsAccount, Bank)*)
(*   src/ClassRefresher.py          (Person, Member, Book, Library)        *)
(*                                                                         *)
(* Python floats are modelled as exact rationals [n, d] in lowest terms.   *)
(* Method bodies are operators that take the object (a record) and the     *)
(* arguments and give back the object after the call together with what    *)
(* the caller observes (return value or raised exception, printed notice). *)
(* Actions apply them to the objects held in the state.                    *)
(***************************************************************************)
EXTENDS Integers, Sequences, FiniteSets, TLC

VARIABLES
    account,        \* the Account object under test (banking program)
    log,            \* calls made on `account` so far, with their outcome
    returned,       \* the list the caller got from get_transaction_history()
    total_holders,  \* AccountHolder.total_holders (class variable)
    holders,        \* the AccountHolder objects constructed so far
    bank,           \* the Bank object
    opened,         \* the Account objects constructed by bank.open_account
    bank_last,      \* the last call on the bank and what it returned
    total_people,   \* Person.total_people (class variable)
    members,        \* the Member objects of the library program
    books,          \* the Book objects of the library program
    now,            \* datetime.now(), in days since the program started
    borrowed_view,  \* the list the caller got from member.borrowed_books
    lib_last,       \* the last call on a Book or Member and what it returned
    library,        \* the Library object
    librarians,     \* the Librarian objects of the library program
    threads         \* the threads that are constructing an AccountHolder

acctVars == <<account, log, returned>>
bankVars == <<total_holders, holders, bank, opened, bank_last, threads>>
catalogVars == <<library, librarians>>
libVars == <<total_people, members, books, now, borrowed_view, lib_last,
             library, librarians>>
vars == <<account, log, returned, total_holders, holders, bank, opened, bank_last,
          total_people, members, books, now, borrowed_view, lib_last,
          library, librarians, threads>>

----------------------------------------------------------------------------
(* Exact arithmetic for the float fields (balance, amounts, rates).        *)

RECURSIVE GCD(_, _)
GCD(a, b) == IF b = 0 THEN a ELSE GCD(b, a % b)

Abs(i) == IF i < 0 THEN -i ELSE i

Norm(n, d) == LET g == GCD(Abs(n), d) IN [n |-> n \div g, d |-> d \div g]

R(i) == [n |-> i, d |-> 1]

Zero == R(0)

RAdd(x, y) ==
    LET l == (x.d \div GCD(x.d, y.d)) * y.d
    IN  Norm(x.n * (l \div x.d) + y.n * (l \div y.d), l)

RNeg(x) == [n |-> -x.n, d |-> x.d]

RSub(x, y) == RAdd(x, RNeg(y))

RMul(x, y) == Norm(x.n * y.n, x.d * y.d)

RLeq(x, y) == x.n * y.d <= y.n * x.d

RLt(x, y) == x.n * y.d < y.n * x.d

----------------------------------------------------------------------------
(* class TransactionType *)
DEPOSIT == "DEPOSIT"
WITHDRAWAL == "WITHDRAWAL"
INTEREST == "INTEREST"
FEE == "FEE"

(* Transaction.__init__ ; the wall-clock timestamp is not modelled. *)
Transaction(amount, trans_type, description) ==
    [amount |-> amount, type |-> trans_type, description |-> description]

(* Account._add_transaction *)
Account_add_transaction(self, amount, trans_type, description) ==
    [self EXCEPT !.transaction_history =
        Append(@, Transaction(amount, trans_type, description))]

\* variant of Account.__init__ that records an initial deposit of zero too
Account_init_records_zero(class, number, holder, initial_balance) ==
    LET obj == [class |-> class,
                account_number |-> number,
                holder |-> holder,
                balance |-> initial_balance,
                transaction_history |-> <<>>]
    IN  IF RLeq(Zero, initial_balance)
        THEN Account_add_transaction(obj, initial_balance, DEPOSIT, "Initial Deposit")
        ELSE obj

(* Account.__init__ *)
Account_init(class, number, holder, initial_balance) ==
    LET obj == [class |-> class,
                account_number |-> number,
                holder |-> holder,
                balance |-> initial_balance,
                transaction_history |-> <<>>]
    IN  IF RLt(Zero, initial_balance)
        THEN Account_add_transaction(obj, initial_balance, DEPOSIT, "Initial Deposit")
        ELSE obj

(* CheckingAccount.__init__ *)
CheckingAccount_init(number, holder, initial_balance, overdraft_limit) ==
    Account_init("CheckingAccount", number, holder, initial_balance)
        @@ [overdraft_limit |-> overdraft_limit]

(* SavingsAccount.__init__ *)
SavingsAccount_init(number, holder, initial_balance, interest_rate) ==
    Account_init("SavingsAccount", number, holder, initial_balance)
        @@ [interest_rate |-> interest_rate]

(* What a call gives back: the object after the call, the value returned    *)
(* ("True", "False", "None") or the exception raised ("ValueError"), the    *)
(* line printed ("" when nothing is printed) and the amount printed in it.  *)
Outcome(self, ret, notice, shown) ==
    [self |-> self, ret |-> ret, notice |-> notice, shown |-> shown]

\* variant of Account.deposit that rejects negative amounts only
Account_deposit_accepts_zero(self, amount) ==
    IF RLt(amount, Zero)
    THEN Outcome(self, "ValueError", "", Zero)
    ELSE Outcome(Account_add_transaction(
                    [self EXCEPT !.balance = RAdd(@, amount)],
                    amount, DEPOSIT, "Client Deposit"),
                 "True", "", Zero)

(* Account.deposit *)
Account_deposit(self, amount) ==
    IF RLeq(amount, Zero)
    THEN Outcome(self, "ValueError", "", Zero)
    ELSE Outcome(Account_add_transaction(
                    [self EXCEPT !.balance = RAdd(@, amount)],
                    amount, DEPOSIT, "Client Deposit"),
                 "True", "", Zero)

\* variant of CheckingAccount.withdraw that debits before it checks the limit
CheckingAccount_withdraw_debits_first(self, amount) ==
    IF RLeq(amount, Zero)
    THEN Outcome(self, "ValueError", "", Zero)
    ELSE LET debited == [self EXCEPT !.balance = RSub(@, amount)]
         IN  IF RLeq(amount, RAdd(self.balance, self.overdraft_limit))
             THEN Outcome(Account_add_transaction(debited, amount, WITHDRAWAL,
                                                  "Withdrawal"),
                          "True", "", Zero)
             ELSE Outcome(debited, "False",
                          "Withdrawal failed: Exceeds overdraft limit.", Zero)

\* variant of CheckingAccount.withdraw that ignores the overdraft limit
CheckingAccount_withdraw_no_overdraft(self, amount) ==
    IF RLeq(amount, Zero)
    THEN Outcome(self, "ValueError", "", Zero)
    ELSE IF RLeq(amount, self.balance)
         THEN Outcome(Account_add_transaction(
                         [self EXCEPT !.balance = RSub(@, amount)],
                         amount, WITHDRAWAL, "Withdrawal"),
                      "True", "", Zero)
         ELSE Outcome(self, "False",
                      "Withdrawal failed: Exceeds overdraft limit.", Zero)

\* variant of CheckingAccount.withdraw that allows twice the overdraft
CheckingAccount_withdraw_double_limit(self, amount) ==
    IF RLeq(amount, Zero)
    THEN Outcome(self, "ValueError", "", Zero)
    ELSE IF RLeq(amount, RAdd(self.balance,
                              RAdd(self.overdraft_limit, self.overdraft_limit)))
         THEN Outcome(Account_add_transaction(
                         [self EXCEPT !.balance = RSub(@, amount)],
                         amount, WITHDRAWAL, "Withdrawal"),
                      "True", "", Zero)
         ELSE Outcome(self, "False",
                      "Withdrawal failed: Exceeds overdraft limit.", Zero)

(* CheckingAccount.withdraw *)
CheckingAccount_withdraw(self, amount) ==
    IF RLeq(amount, Zero)
    THEN Outcome(self, "ValueError", "", Zero)
    ELSE IF RLeq(amount, RAdd(self.balance, self.overdraft_limit))
         THEN Outcome(Account_add_transaction(
                         [self EXCEPT !.balance = RSub(@, amount)],
                         amount, WITHDRAWAL, "Withdrawal"),
                      "True", "", Zero)
         ELSE Outcome(self, "False",
                      "Withdrawal failed: Exceeds overdraft limit.", Zero)

\* variant of SavingsAccount.withdraw that does not check the sign of amount
SavingsAccount_withdraw_any_sign(self, amount) ==
    IF RLeq(amount, self.balance)
    THEN Outcome(Account_add_transaction(
                    [self EXCEPT !.balance = RSub(@, amount)],
                    amount, WITHDRAWAL, "Withdrawal"),
                 "True", "", Zero)
    ELSE Outcome(self, "False",
                 "Withdrawal failed: Insufficient funds.", Zero)

\* variant of SavingsAccount.withdraw that needs more than the amount
SavingsAccount_withdraw_strict(self, amount) ==
    IF RLeq(amount, Zero)
    THEN Outcome(self, "ValueError", "", Zero)
    ELSE IF RLt(amount, self.balance)
         THEN Outcome(Account_add_transaction(
                         [self EXCEPT !.balance = RSub(@, amount)],
                         amount, WITHDRAWAL, "Withdrawal"),
                      "True", "", Zero)
         ELSE Outcome(self, "False",
                      "Withdrawal failed: Insufficient funds.", Zero)

(* SavingsAccount.withdraw *)
SavingsAccount_withdraw(self, amount) ==
    IF RLeq(amount, Zero)
    THEN Outcome(self, "ValueError", "", Zero)
    ELSE IF RLeq(amount, self.balance)
         THEN Outcome(Account_add_transaction(
                         [self EXCEPT !.balance = RSub(@, amount)],
                         amount, WITHDRAWAL, "Withdrawal"),
                      "True", "", Zero)
         ELSE Outcome(self, "False",
                      "Withdrawal failed: Insufficient funds.", Zero)

(* Account.withdraw is abstract: the call dispatches on the object's class. *)
Account_withdraw(self, amount) ==
    IF self.class = "CheckingAccount"
    THEN CheckingAccount_withdraw(self, amount)
    ELSE SavingsAccount_withdraw(self, amount)

\* variant of SavingsAccount.apply_interest that books interest of any sign
SavingsAccount_apply_interest_any_sign(self) ==
    LET interest_amount == RMul(self.balance, self.interest_rate)
    IN  IF interest_amount # Zero
        THEN Outcome(Account_add_transaction(
                        [self EXCEPT !.balance = RAdd(@, interest_amount)],
                        interest_amount, INTEREST, "Interest at rate"),
                     "None", "Applied interest", interest_amount)
        ELSE Outcome(self, "None", "", Zero)

\* variant of SavingsAccount.apply_interest that also credits zero interest
SavingsAccount_apply_interest_credits_zero(self) ==
    LET interest_amount == RMul(self.balance, self.interest_rate)
    IN  IF RLeq(Zero, interest_amount)
        THEN Outcome(Account_add_transaction(
                        [self EXCEPT !.balance = RAdd(@, interest_amount)],
                        interest_amount, INTEREST, "Interest at rate"),
                     "None", "Applied interest", interest_amount)
        ELSE Outcome(self, "None", "", Zero)

(* SavingsAccount.apply_interest *)
SavingsAccount_apply_interest(self) ==
    LET interest_amount == RMul(self.balance, self.interest_rate)
    IN  IF RLt(Zero, interest_amount)
        THEN Outcome(Account_add_transaction(
                        [self EXCEPT !.balance = RAdd(@, interest_amount)],
                        interest_amount, INTEREST, "Interest at rate"),
                     "None", "Applied interest", interest_amount)
        ELSE Outcome(self, "None", "", Zero)

\* variant of Account.get_transaction_history that hands out the list itself
Account_get_transaction_history_no_copy(self) ==
    [alias |-> TRUE, items |-> self.transaction_history]

(* Account.get_transaction_history: list.copy() builds a new list object    *)
(* holding the same elements.  `alias` tells whether the list handed out is *)
(* the account's own list object.                                           *)
Account_get_transaction_history(self) ==
    [alias |-> FALSE, items |-> self.transaction_history]

(* Account.__len__ *)
Account_len(self) == Len(self.transaction_history)

\* no object (None where an object is expected)
NoObject == [class |-> "None"]

\* default of CheckingAccount.__init__'s overdraft_limit
DefaultOverdraftLimit == 100

\* default of SavingsAccount.__init__'s interest_rate (0.015)
DefaultInterestRate == Norm(15, 1000)

----------------------------------------------------------------------------
(* Strings that are inspected character by character are tuples of         *)
(* one-character strings.                                                  *)

UpperCase == << "A", "B", "C", "D", "E", "F", "G", "H", "I", "J", "K", "L", "M",
                "N", "O", "P", "Q", "R", "S", "T", "U", "V", "W", "X", "Y", "Z" >>
LowerCase == << "a", "b", "c", "d", "e", "f", "g", "h", "i", "j", "k", "l", "m",
                "n", "o", "p", "q", "r", "s", "t", "u", "v", "w", "x", "y", "z" >>

\* the lower-case letter of each upper-case letter
LowerOf ==
    [c \in {UpperCase[k] : k \in DOMAIN UpperCase} |->
        LowerCase[CHOOSE k \in DOMAIN UpperCase : UpperCase[k] = c]]

\* str.lower()
Lower(str) ==
    [i \in DOMAIN str |->
        IF str[i] \in DOMAIN LowerOf THEN LowerOf[str[i]] ELSE str[i]]

\* the decimal digits of n >= 0, most significant first
RECURSIVE Digits(_)
Digits(n) == IF n < 10 THEN <<n>> ELSE Append(Digits(n \div 10), n % 10)

\* format(n, "04d")
RECURSIVE ZeroPad4(_)
ZeroPad4(digits) == IF Len(digits) >= 4 THEN digits ELSE ZeroPad4(<<0>> \o digits)

\* variant of _generate_holder_id that numbers every holder 1
AccountHolder_generate_holder_id_no_counter(counter) ==
    <<"HOLDER-">> \o ZeroPad4(Digits(1))

(* AccountHolder._generate_holder_id, given the value of the class counter *)
AccountHolder_generate_holder_id(counter) ==
    <<"HOLDER-">> \o ZeroPad4(Digits(counter + 1))

(* AccountHolder.__init__ as run by IndividualClient / BusinessClient; the  *)
(* address, e-mail and subclass attributes take no part in any operation.   *)
AccountHolder_init(class, name, counter) ==
    [class |-> class, name |-> name,
     holder_id |-> AccountHolder_generate_holder_id(counter)]

(* AccountHolder.name = value (setter): no validation *)
AccountHolder_set_name(self, value) ==
    [self |-> [self EXCEPT !.name = value], ret |-> "None"]

(* Bank.__init__ ; a dict is a function from its keys to references        *)
Bank_init(name) == [name |-> name, accounts |-> <<>>, clients |-> <<>>]

\* dict[key] = value
DictSet(dict, key, value) ==
    [k \in DOMAIN dict \cup {key} |-> IF k = key THEN value ELSE dict[k]]

NoRef == 0

\* dict.get(key)
DictGet(dict, key) == IF key \in DOMAIN dict THEN dict[key] ELSE NoRef

\* variant of Bank.open_account that compares account_type as it is written
Bank_open_account_case_sensitive(self, holder_ref, holder, account_type, initial_deposit, kwargs, number, ref) ==
    LET registered ==
            IF holder.holder_id \notin DOMAIN self.clients
            THEN [self EXCEPT !.clients = DictSet(@, holder.holder_id, holder_ref)]
            ELSE self
        built ==
            IF account_type = <<"c", "h", "e", "c", "k", "i", "n", "g">>
            THEN CheckingAccount_init(number, holder_ref, initial_deposit,
                    IF "overdraft_limit" \in DOMAIN kwargs
                    THEN kwargs.overdraft_limit ELSE R(DefaultOverdraftLimit))
            ELSE IF account_type = <<"s", "a", "v", "i", "n", "g", "s">>
            THEN SavingsAccount_init(number, holder_ref, initial_deposit,
                    IF "interest_rate" \in DOMAIN kwargs
                    THEN kwargs.interest_rate ELSE DefaultInterestRate)
            ELSE NoObject
    IN  IF built = NoObject
        THEN [self |-> registered, account |-> NoObject, ret |-> NoRef,
              notice |-> "Invalid account type"]
        ELSE [self |-> [registered EXCEPT
                            !.accounts = DictSet(@, built.account_number, ref)],
              account |-> built, ret |-> ref, notice |-> ""]

\* variant of Bank.open_account that registers the holder once the account
\* is built
Bank_open_account_registers_on_success(self, holder_ref, holder, account_type, initial_deposit, kwargs, number, ref) ==
    LET registered ==
            IF holder.holder_id \notin DOMAIN self.clients
            THEN [self EXCEPT !.clients = DictSet(@, holder.holder_id, holder_ref)]
            ELSE self
        built ==
            IF Lower(account_type) = <<"c", "h", "e", "c", "k", "i", "n", "g">>
            THEN CheckingAccount_init(number, holder_ref, initial_deposit,
                    IF "overdraft_limit" \in DOMAIN kwargs
                    THEN kwargs.overdraft_limit ELSE R(DefaultOverdraftLimit))
            ELSE IF Lower(account_type) = <<"s", "a", "v", "i", "n", "g", "s">>
            THEN SavingsAccount_init(number, holder_ref, initial_deposit,
                    IF "interest_rate" \in DOMAIN kwargs
                    THEN kwargs.interest_rate ELSE DefaultInterestRate)
            ELSE NoObject
    IN  IF built = NoObject
        THEN [self |-> self, account |-> NoObject, ret |-> NoRef,
              notice |-> "Invalid account type"]
        ELSE [self |-> [registered EXCEPT
                            !.accounts = DictSet(@, built.account_number, ref)],
              account |-> built, ret |-> ref, notice |-> ""]

\* variant of Bank.open_account that registers the holder on every call
Bank_open_account_overwrites(self, holder_ref, holder, account_type, initial_deposit, kwargs, number, ref) ==
    LET registered ==
            [self EXCEPT !.clients = DictSet(@, holder.holder_id, holder_ref)]
        built ==
            IF Lower(account_type) = <<"c", "h", "e", "c", "k", "i", "n", "g">>
            THEN CheckingAccount_init(number, holder_ref, initial_deposit,
                    IF "overdraft_limit" \in DOMAIN kwargs
                    THEN kwargs.overdraft_limit ELSE R(DefaultOverdraftLimit))
            ELSE IF Lower(account_type) = <<"s", "a", "v", "i", "n", "g", "s">>
            THEN SavingsAccount_init(number, holder_ref, initial_deposit,
                    IF "interest_rate" \in DOMAIN kwargs
                    THEN kwargs.interest_rate ELSE DefaultInterestRate)
            ELSE NoObject
    IN  IF built = NoObject
        THEN [self |-> registered, account |-> NoObject, ret |-> NoRef,
              notice |-> "Invalid account type"]
        ELSE [self |-> [registered EXCEPT
                            !.accounts = DictSet(@, built.account_number, ref)],
              account |-> built, ret |-> ref, notice |-> ""]

(* Bank.open_account.  `holder_ref` refers to the holder object `holder`,   *)
(* `number` is the string random.choices draws for the new account and      *)
(* `ref` the reference the new Account object gets.  kwargs is the record   *)
(* of keyword options.  The result carries the account built (NoObject when *)
(* none is) and the reference returned (NoRef for None).                    *)
Bank_open_account(self, holder_ref, holder, account_type, initial_deposit, kwargs, number, ref) ==
    LET registered ==
            IF holder.holder_id \notin DOMAIN self.clients
            THEN [self EXCEPT !.clients = DictSet(@, holder.holder_id, holder_ref)]
            ELSE self
        built ==
            IF Lower(account_type) = <<"c", "h", "e", "c", "k", "i", "n", "g">>
            THEN CheckingAccount_init(number, holder_ref, initial_deposit,
                    IF "overdraft_limit" \in DOMAIN kwargs
                    THEN kwargs.overdraft_limit ELSE R(DefaultOverdraftLimit))
            ELSE IF Lower(account_type) = <<"s", "a", "v", "i", "n", "g", "s">>
            THEN SavingsAccount_init(number, holder_ref, initial_deposit,
                    IF "interest_rate" \in DOMAIN kwargs
                    THEN kwargs.interest_rate ELSE DefaultInterestRate)
            ELSE NoObject
    IN  IF built = NoObject
        THEN [self |-> registered, account |-> NoObject, ret |-> NoRef,
              notice |-> "Invalid account type"]
        ELSE [self |-> [registered EXCEPT
                            !.accounts = DictSet(@, built.account_number, ref)],
              account |-> built, ret |-> ref, notice |-> ""]

(* Bank.find_account *)
Bank_find_account(self, account_number) == DictGet(self.accounts, account_number)

(* Bank.__len__ *)
Bank_len(self) == Cardinality(DOMAIN self.accounts)

(* Bank.__contains__ for an AccountHolder *)
Bank_contains_holder(self, holder) == holder.holder_id \in DOMAIN self.clients

(* Bank.__contains__ for an Account *)
Bank_contains_account(self, acct) == acct.account_number \in DOMAIN self.accounts

----------------------------------------------------------------------------
(* src/ClassRefresher.py                                                   *)

\* the upper-case letter of each lower-case letter
UpperOf ==
    [c \in {LowerCase[k] : k \in DOMAIN LowerCase} |->
        UpperCase[CHOOSE k \in DOMAIN LowerCase : LowerCase[k] = c]]

\* str.upper()
Upper(str) ==
    [i \in DOMAIN str |->
        IF str[i] \in DOMAIN UpperOf THEN UpperOf[str[i]] ELSE str[i]]

\* str[:3]
First3(str) == SubSeq(str, 1, IF Len(str) < 3 THEN Len(str) ELSE 3)

(* Person._generate_id, given the class name and the class counter *)
Person_generate_id(class_name, counter) ==
    Upper(First3(class_name)) \o ZeroPad4(Digits(counter + 1))

(* Member.__init__ (with Person.__init__); `today` is datetime.now() *)
Member_init(name, email, phone, membership_type, counter, today) ==
    [class |-> "Member",
     name |-> name, email |-> email, phone |-> phone,
     id |-> Person_generate_id(<<"M", "e", "m", "b", "e", "r">>, counter),
     membership_type |-> membership_type,
     borrowed_books |-> <<>>,
     membership_date |-> today]

(* Librarian.__init__ (with Person.__init__) *)
Librarian_init(name, email, phone, employee_id, department, counter, today) ==
    [class |-> "Librarian",
     name |-> name, email |-> email, phone |-> phone,
     id |-> Person_generate_id(<<"L", "i", "b", "r", "a", "r", "i", "a", "n">>,
                               counter),
     employee_id |-> employee_id, department |-> department,
     hire_date |-> today]

\* `ch in str`
Contains(str, ch) == \E i \in DOMAIN str : str[i] = ch

(* Person.email = value (setter) *)
Person_set_email(self, value) ==
    IF ~Contains(value, "@")
    THEN [self |-> self, ret |-> "ValueError"]
    ELSE [self |-> [self EXCEPT !.email = value], ret |-> "None"]

(* max_books in Member.borrow_book *)
max_books == [basic |-> 3, premium |-> 10, student |-> 5]

(* valid_types in the membership_type setter *)
valid_types == <<"basic", "premium", "student">>

(* Member.membership_type = value (setter) *)
Member_set_membership_type(self, value) ==
    IF ~(\E i \in DOMAIN valid_types : valid_types[i] = value)
    THEN [self |-> self, ret |-> "ValueError"]
    ELSE [self |-> [self EXCEPT !.membership_type = value], ret |-> "None"]

(* Member.borrowed_books (property): a copy of the list *)
Member_borrowed_books(self) ==
    [alias |-> FALSE, items |-> self.borrowed_books]

\* variant of Member.borrow_book that refuses a book already in the list
Member_borrow_book_once(self, book) ==
    IF \/ Len(self.borrowed_books) >= max_books[self.membership_type]
       \/ \E i \in DOMAIN self.borrowed_books : self.borrowed_books[i] = book
    THEN [self |-> self, ret |-> "False"]
    ELSE [self |-> [self EXCEPT !.borrowed_books = Append(@, book)],
          ret |-> "True"]

(* Member.borrow_book; `book` is a reference to a Book *)
Member_borrow_book(self, book) ==
    IF Len(self.borrowed_books) >= max_books[self.membership_type]
    THEN [self |-> self, ret |-> "False"]
    ELSE [self |-> [self EXCEPT !.borrowed_books = Append(@, book)],
          ret |-> "True"]

(* Book.__eq__ on two Book objects *)
Book_eq(self, other) == self.isbn = other.isbn

\* list.remove(x): drops the first element equal to x
RECURSIVE ListRemove(_, _, _)
ListRemove(list, x, heap) ==
    IF list = <<>> THEN <<>>
    ELSE IF Head(list) = x \/ Book_eq(heap[Head(list)], heap[x])
         THEN Tail(list)
         ELSE <<Head(list)>> \o ListRemove(Tail(list), x, heap)

(* Member.return_book; `heap` holds the Book objects the references name *)
Member_return_book(self, book, heap) ==
    IF \E i \in DOMAIN self.borrowed_books :
          \/ self.borrowed_books[i] = book
          \/ Book_eq(heap[self.borrowed_books[i]], heap[book])
    THEN [self |-> [self EXCEPT !.borrowed_books = ListRemove(@, book, heap)],
          ret |-> "True"]
    ELSE [self |-> self, ret |-> "False"]

\* None where a date is expected; a date d is <<d>>
NoDate == <<>>

(* Book.__init__ *)
Book_init(title, author, isbn, publication_year, genre) ==
    [title |-> title, author |-> author, isbn |-> isbn,
     publication_year |-> publication_year, genre |-> genre,
     is_available |-> TRUE, borrower |-> NoRef, due_date |-> NoDate]

\* default of Book.borrow's days
DefaultDays == 14

\* variant of Book.borrow that sets no due date
Book_borrow_no_due_date(self, member, days, today) ==
    IF ~self.is_available
    THEN [self |-> self, ret |-> "False"]
    ELSE [self |-> [self EXCEPT !.is_available = FALSE,
                                !.borrower = member],
          ret |-> "True"]

(* Book.borrow; `member` is a reference to a Member, `today` datetime.now() *)
Book_borrow(self, member, days, today) ==
    IF ~self.is_available
    THEN [self |-> self, ret |-> "False"]
    ELSE [self |-> [self EXCEPT !.is_available = FALSE,
                                !.borrower = member,
                                !.due_date = <<today + days>>],
          ret |-> "True"]

\* variant of Book.return_book that does not look at is_available
Book_return_book_unchecked(self) ==
    [self |-> [self EXCEPT !.is_available = TRUE,
                           !.borrower = NoRef,
                           !.due_date = NoDate],
     ret |-> "True"]

(* Book.return_book *)
Book_return_book(self) ==
    IF self.is_available
    THEN [self |-> self, ret |-> "False"]
    ELSE [self |-> [self EXCEPT !.is_available = TRUE,
                                !.borrower = NoRef,
                                !.due_date = NoDate],
          ret |-> "True"]

(* Book.is_overdue *)
Book_is_overdue(self, today) ==
    IF self.is_available \/ self.due_date = NoDate
    THEN FALSE
    ELSE today > self.due_date[1]

\* Python values held in a dict: str, int, bool and None
PyStr(x) == [type |-> "str", v |-> x]
PyInt(x) == [type |-> "int", v |-> x]
PyBool(x) == [type |-> "bool", v |-> x]
PyNone == [type |-> "NoneType"]

\* date.isoformat(): the text of a date
IsoFormat(date) == <<"D">> \o Digits(date[1])

\* dict[key], for a dict kept as the sequence of its <<key, value>> items
Item(dict, key) ==
    dict[CHOOSE i \in DOMAIN dict : dict[i][1] = key][2]

(* Book.to_dict; `people` holds the Member objects *)
Book_to_dict(self, people) ==
    << <<"title", PyStr(self.title)>>,
       <<"author", PyStr(self.author)>>,
       <<"isbn", PyStr(self.isbn)>>,
       <<"publication_year", PyInt(self.publication_year)>>,
       <<"genre", PyStr(self.genre)>>,
       <<"is_available", PyBool(self.is_available)>>,
       <<"borrower", IF self.borrower # NoRef
                     THEN PyStr(people[self.borrower].name) ELSE PyNone>>,
       <<"due_date", IF self.due_date # NoDate
                     THEN PyStr(IsoFormat(self.due_date)) ELSE PyNone>> >>

\* the JSON token json.dumps writes for a Python value
JsonToken(value) ==
    CASE value.type = "str" -> [kind |-> "string", text |-> value.v]
      [] value.type = "int" -> [kind |-> "number", text |-> Digits(value.v)]
      [] value.type = "bool" -> [kind |-> IF value.v THEN "true" ELSE "false"]
      [] OTHER -> [kind |-> "null"]

\* the number a sequence of decimal digits denotes
RECURSIVE Value(_)
Value(digits) ==
    IF digits = <<>> THEN 0
    ELSE 10 * Value(SubSeq(digits, 1, Len(digits) - 1)) + digits[Len(digits)]

\* the Python value json.loads builds from a JSON token
JsonValue(token) ==
    CASE token.kind = "string" -> PyStr(token.text)
      [] token.kind = "number" -> PyInt(Value(token.text))
      [] token.kind = "true" -> PyBool(TRUE)
      [] token.kind = "false" -> PyBool(FALSE)
      [] OTHER -> PyNone

\* json.dumps of a dict: the members of the JSON object, in order
json_dumps(dict) ==
    [i \in DOMAIN dict |-> <<dict[i][1], JsonToken(dict[i][2])>>]

\* json.loads of a JSON object
json_loads(text) ==
    [i \in DOMAIN text |-> <<text[i][1], JsonValue(text[i][2])>>]

\* variant of Book.from_json that also restores the availability flag
Book_from_json_keeps_state(json_data) ==
    LET data == json_loads(json_data)
    IN  [Book_init(Item(data, "title").v, Item(data, "author").v,
                   Item(data, "isbn").v, Item(data, "publication_year").v,
                   Item(data, "genre").v)
           EXCEPT !.is_available = Item(data, "is_available").v]

(* Book.from_json *)
Book_from_json(json_data) ==
    LET data == json_loads(json_data)
    IN  Book_init(Item(data, "title").v, Item(data, "author").v,
                  Item(data, "isbn").v, Item(data, "publication_year").v,
                  Item(data, "genre").v)

(* Person.__eq__ on two Person objects *)
Person_eq(self, other) == self.id = other.id

(* Library.__init__ *)
Library_init(name, address) ==
    [class |-> "Library", name |-> name, address |-> address,
     books |-> <<>>, members |-> <<>>, librarians |-> <<>>]

\* `x in list` for a list of Book references: identity first, then __eq__
BookIn(list, x, heap) ==
    \E i \in DOMAIN list : list[i] = x \/ Book_eq(heap[list[i]], heap[x])

\* `x in list` for a list of Member references
MemberIn(list, x, people) ==
    \E i \in DOMAIN list : list[i] = x \/ Person_eq(people[list[i]], people[x])

\* variant of Library.add_book that refuses only the very same object
Library_add_book_by_identity(self, book, heap) ==
    IF \E i \in DOMAIN self.books : self.books[i] = book
    THEN [self |-> self, ret |-> "False"]
    ELSE [self |-> [self EXCEPT !.books = Append(@, book)], ret |-> "True"]

(* Library.add_book; `heap` holds the Book objects the references name *)
Library_add_book(self, book, heap) ==
    IF BookIn(self.books, book, heap)
    THEN [self |-> self, ret |-> "False"]
    ELSE [self |-> [self EXCEPT !.books = Append(@, book)], ret |-> "True"]

\* variant of Library.remove_book that does not look at is_available
Library_remove_book_any(self, isbn, heap) ==
    IF \E i \in DOMAIN self.books : heap[self.books[i]].isbn = isbn
    THEN LET i == CHOOSE k \in DOMAIN self.books :
                     /\ heap[self.books[k]].isbn = isbn
                     /\ \A j \in 1..(k - 1) : heap[self.books[j]].isbn # isbn
         IN  [self |-> [self EXCEPT !.books = ListRemove(@, self.books[i], heap)],
              ret |-> "True"]
    ELSE [self |-> self, ret |-> "False"]

(* Library.remove_book: the loop stops at the first book with that ISBN *)
Library_remove_book(self, isbn, heap) ==
    IF \E i \in DOMAIN self.books : heap[self.books[i]].isbn = isbn
    THEN LET i == CHOOSE k \in DOMAIN self.books :
                     /\ heap[self.books[k]].isbn = isbn
                     /\ \A j \in 1..(k - 1) : heap[self.books[j]].isbn # isbn
         IN  IF ~heap[self.books[i]].is_available
             THEN [self |-> self, ret |-> "False"]
             ELSE [self |-> [self EXCEPT
                                !.books = ListRemove(@, self.books[i], heap)],
                   ret |-> "True"]
    ELSE [self |-> self, ret |-> "False"]

(* Library.add_member; `people` holds the Member objects *)
Library_add_member(self, member, people) ==
    IF MemberIn(self.members, member, people)
    THEN [self |-> self, ret |-> "False"]
    ELSE [self |-> [self EXCEPT !.members = Append(@, member)], ret |-> "True"]

(* Library.find_book_by_isbn: the first book with that ISBN, or None *)
Library_find_book_by_isbn(self, isbn, heap) ==
    IF \E i \in DOMAIN self.books : heap[self.books[i]].isbn = isbn
    THEN self.books[CHOOSE k \in DOMAIN self.books :
                       /\ heap[self.books[k]].isbn = isbn
                       /\ \A j \in 1..(k - 1) : heap[self.books[j]].isbn # isbn]
    ELSE NoRef

\* [x for x in list if keep[x]], in the order of the list
RECURSIVE Filter(_, _)
Filter(list, keep) ==
    IF list = <<>> THEN <<>>
    ELSE (IF keep[Head(list)] THEN <<Head(list)>> ELSE <<>>)
         \o Filter(Tail(list), keep)

(* Library.get_member_borrowed_books: book.borrower == member *)
Library_get_member_borrowed_books(self, member, heap, people) ==
    Filter(self.books,
           [b \in DOMAIN heap |->
               /\ heap[b].borrower # NoRef
               /\ \/ heap[b].borrower = member
                  \/ Person_eq(people[heap[b].borrower], people[member])])

(* Library.__len__ *)
Library_len(self) == Len(self.books)

(* Library.books_count (property) *)
Library_books_count(self) == Len(self.books)

(* Library.members_count (property) *)
Library_members_count(self) == Len(self.members)

(* Library.available_books_count (property) *)
Library_available_books_count(self, heap) ==
    Len(Filter(self.books, [b \in DOMAIN heap |-> heap[b].is_available]))

(* Library.get_overdue_books; `today` is datetime.now() *)
Library_get_overdue_books(self, heap, today) ==
    Filter(self.books, [b \in DOMAIN heap |-> Book_is_overdue(heap[b], today)])

(* Library.generate_report *)
Library_generate_report(self, heap, today) ==
    [library_name |-> self.name,
     total_books |-> Library_books_count(self),
     available_books |-> Library_available_books_count(self, heap),
     borrowed_books |-> Library_books_count(self)
                           - Library_available_books_count(self, heap),
     total_members |-> Library_members_count(self),
     overdue_books |-> Len(Library_get_overdue_books(self, heap, today))]

----------------------------------------------------------------------------
(* Bounds and input values.                                                *)

MaxCalls == 4

\* amounts passed to deposit and to withdraw: those of the demonstration run
\* (deposit 200; withdraw 50, 1500, 1300), zero and a negative amount
DepositAmounts == {-50, 0, 50, 200}
WithdrawAmounts == {-50, 0, 50, 1300, 1500}

CheckingBalances == {-100, 0, 1000}
OverdraftLimits == {0, 250}
SavingsBalances == {-100, 0, 5000}
InterestRates == {Norm(-1, 50), Zero, Norm(1, 50)}

\* the account number and the holder of the account under test
TestNumber == <<1, 2, 3, 4, 5, 6, 7, 8, 9, 0>>
TestHolder == "HOLDER-0001"

MaxHolders == 2
MaxAccounts == 2

HolderClasses == {"IndividualClient", "BusinessClient"}

\* account_type strings: three that match in some letter case, two that do not
AccountTypes ==
    { <<"c", "h", "e", "c", "k", "i", "n", "g">>,
      <<"C", "h", "e", "c", "k", "i", "n", "g">>,
      <<"S", "A", "V", "I", "N", "G", "S">>,
      <<"s", "a", "v", "i", "n", "g">>,
      <<"C", "u", "r", "r", "e", "n", "t">> }

InitialDeposits == {1000}

\* keyword options of open_account: the one the demonstration passes for the
\* variant asked for, none with a type that names no variant
OptionsFor(account_type) ==
    IF Lower(account_type) = <<"c", "h", "e", "c", "k", "i", "n", "g">>
    THEN {[overdraft_limit |-> R(250)]}
    ELSE IF Lower(account_type) = <<"s", "a", "v", "i", "n", "g", "s">>
    THEN {[interest_rate |-> Norm(2, 100)]}
    ELSE {<<>>}

MaxNow == 2
MaxViewLen == 3

MembershipTypes == {"basic", "premium", "student"}

\* days passed to Book.borrow: the default and a short loan
LoanDays == {1, DefaultDays}

\* amounts used where the caller's copy of the history is under test
ReadAmounts == {50}

\* what a caller appends to a list it was handed
ForgedTransaction == Transaction(R(999), FEE, "forged")

\* the strings random.choices may draw for an account number (two of the
\* 10^10 equally likely ones)
AccountNumbers == { <<1, 2, 3, 4, 5, 6, 7, 8, 9, 0>>,
                    <<0, 0, 0, 0, 0, 0, 0, 0, 0, 7>> }

----------------------------------------------------------------------------
(* One account and its caller.                                             *)

\* the other program's objects when one program runs
IdleAccount == account = NoObject /\ log = <<>> /\ returned = <<>>
IdleBank ==
    /\ total_holders = 0
    /\ holders = <<>>
    /\ bank = NoObject
    /\ opened = <<>>
    /\ bank_last = [op |-> "none"]
    /\ threads = <<>>

\* the e-mail addresses of the demonstration, character by character
AliceEmail ==
    <<"a", "l", "i", "c", "e", "@", "e", "m", "a", "i", "l", ".", "c", "o", "m">>
BobEmail ==
    <<"b", "o", "b", "@", "s", "t", "u", "d", "e", "n", "t", ".", "e", "d", "u">>

IdleLibrary ==
    /\ total_people = 0
    /\ members = <<>>
    /\ books = <<>>
    /\ now = 0
    /\ borrowed_view = <<>>
    /\ lib_last = [op |-> "none"]
    /\ library = NoObject
    /\ librarians = <<>>

Call(op, amount, out) ==
    [op |-> op, amount |-> amount, ret |-> out.ret,
     notice |-> out.notice, shown |-> out.shown]

IsAccount == account.class \in {"CheckingAccount", "SavingsAccount"}

InitAccount ==
    /\ \/ \E b \in CheckingBalances, o \in OverdraftLimits :
             /\ account = CheckingAccount_init(TestNumber, TestHolder, R(b), R(o))
             /\ log = << Call("__init__", R(b), Outcome(account, "None", "", Zero)) >>
       \/ \E b \in SavingsBalances, r \in InterestRates :
             /\ account = SavingsAccount_init(TestNumber, TestHolder, R(b), r)
             /\ log = << Call("__init__", R(b), Outcome(account, "None", "", Zero)) >>
    /\ returned = <<>>
    /\ IdleBank
    /\ IdleLibrary

(* account.deposit(amount) *)
Deposit(amount) ==
    /\ IsAccount
    /\ Len(log) <= MaxCalls
    /\ LET out == Account_deposit(account, R(amount))
       IN  /\ account' = out.self
           /\ log' = Append(log, Call("deposit", R(amount), out))
    /\ UNCHANGED <<returned, bankVars, libVars>>

(* account.withdraw(amount) *)
Withdraw(amount) ==
    /\ IsAccount
    /\ Len(log) <= MaxCalls
    /\ LET out == Account_withdraw(account, R(amount))
       IN  /\ account' = out.self
           /\ log' = Append(log, Call("withdraw", R(amount), out))
    /\ UNCHANGED <<returned, bankVars, libVars>>

(* savings.apply_interest() *)
ApplyInterest ==
    /\ account.class = "SavingsAccount"
    /\ Len(log) <= MaxCalls
    /\ LET out == SavingsAccount_apply_interest(account)
       IN  /\ account' = out.self
           /\ log' = Append(log, Call("apply_interest", Zero, out))
    /\ UNCHANGED <<returned, bankVars, libVars>>

(* history = account.get_transaction_history() *)
GetTransactionHistory ==
    /\ IsAccount
    /\ returned' = << Account_get_transaction_history(account) >>
    /\ UNCHANGED <<account, log, bankVars, libVars>>

\* the elements of the list the caller holds
ReturnedItems ==
    IF returned[1].alias THEN account.transaction_history ELSE returned[1].items

\* the caller's list becomes `items`: the list object is the account's own
\* when it was handed out without a copy
SetReturned(items) ==
    /\ IF returned[1].alias
       THEN /\ account' = [account EXCEPT !.transaction_history = items]
            /\ UNCHANGED returned
       ELSE /\ returned' = << [returned[1] EXCEPT !.items = items] >>
            /\ UNCHANGED account
    /\ UNCHANGED <<log, bankVars, libVars>>

(* history.append(x) *)
ReturnedAppend ==
    /\ returned # <<>>
    /\ Len(ReturnedItems) < MaxViewLen
    /\ SetReturned(Append(ReturnedItems, ForgedTransaction))

(* history.pop() *)
ReturnedPop ==
    /\ returned # <<>>
    /\ ReturnedItems # <<>>
    /\ SetReturned(SubSeq(ReturnedItems, 1, Len(ReturnedItems) - 1))

(* history.clear() *)
ReturnedClear ==
    /\ returned # <<>>
    /\ ReturnedItems # <<>>
    /\ SetReturned(<<>>)

NextAccount ==
    \/ \E a \in DepositAmounts : Deposit(a)
    \/ \E a \in WithdrawAmounts : Withdraw(a)
    \/ ApplyInterest

SpecAccount == InitAccount /\ [][NextAccount]_vars

----------------------------------------------------------------------------
(* The bank, its clients and its accounts.                                 *)

InitBank ==
    /\ IdleAccount
    /\ IdleLibrary
    /\ total_holders = 0
    /\ holders = <<>>
    /\ bank = Bank_init("Capital Trust Bank")
    /\ opened = <<>>
    /\ bank_last = [op |-> "create_national_bank"]
    /\ threads = <<>>

(* IndividualClient(...) / BusinessClient(...) *)
NewHolder(class, name) ==
    /\ Len(holders) < MaxHolders
    /\ holders' = Append(holders, AccountHolder_init(class, name, total_holders))
    /\ total_holders' = total_holders + 1
    /\ bank_last' = [op |-> class]
    /\ UNCHANGED <<bank, opened, threads, acctVars, libVars>>

(* bank.open_account(holder, account_type, initial_deposit, **kwargs) *)
OpenAccount(h, account_type, initial_deposit, kwargs, number) ==
    /\ bank # NoObject
    /\ Len(opened) < MaxAccounts
    /\ LET out == Bank_open_account(bank, h, holders[h], account_type,
                                    R(initial_deposit), kwargs, number,
                                    Len(opened) + 1)
       IN  /\ bank' = out.self
           /\ opened' = IF out.ret = NoRef THEN opened
                         ELSE Append(opened, out.account)
           /\ bank_last' = [op |-> "open_account", holder |-> h,
                            account_type |-> account_type, ret |-> out.ret]
    /\ UNCHANGED <<total_holders, holders, threads, acctVars, libVars>>

NextBank ==
    \/ \E c \in HolderClasses : NewHolder(c, "Alice Smith")
    \/ \E h \in DOMAIN holders, t \in AccountTypes, d \in InitialDeposits,
          n \in AccountNumbers :
            \E k \in OptionsFor(t) : OpenAccount(h, t, d, k, n)

SpecBank == InitBank /\ [][NextBank]_vars

----------------------------------------------------------------------------
(* The library program: two books and two members, as the demonstration    *)
(* builds them.                                                            *)

InitLibrary ==
    /\ IdleAccount
    /\ IdleBank
    /\ \E t \in MembershipTypes :
          members = << Member_init("Alice Johnson", AliceEmail,
                                   "1234567890", t, 0, 0),
                       Member_init("Bob Wilson", BobEmail,
                                   "0987654321", "student", 1, 0) >>
    /\ total_people = 2
    /\ books = << Book_init("Python Programming", "John Smith",
                            "978-0123456789", 2023, "Programming"),
                  Book_init("Data Structures", "Jane Doe",
                            "978-9876543210", 2022, "Computer Science") >>
    /\ now = 0
    /\ borrowed_view = <<>>
    /\ lib_last = [op |-> "none"]
    /\ library = NoObject
    /\ librarians = <<>>

(* time passes *)
Tick ==
    /\ books # <<>>
    /\ now < MaxNow
    /\ now' = now + 1
    /\ UNCHANGED <<total_people, members, books, borrowed_view, lib_last,
                   acctVars, bankVars, catalogVars>>

(* book.borrow(member, days) *)
BookBorrow(b, m, days) ==
    /\ LET out == Book_borrow(books[b], m, days, now)
       IN  /\ books' = [books EXCEPT ![b] = out.self]
           /\ lib_last' = [op |-> "Book.borrow", book |-> b, member |-> m,
                           days |-> days, ret |-> out.ret]
    /\ UNCHANGED <<total_people, members, now, borrowed_view, acctVars, bankVars, catalogVars>>

(* book.return_book() *)
BookReturn(b) ==
    /\ LET out == Book_return_book(books[b])
       IN  /\ books' = [books EXCEPT ![b] = out.self]
           /\ lib_last' = [op |-> "Book.return_book", book |-> b,
                           ret |-> out.ret]
    /\ UNCHANGED <<total_people, members, now, borrowed_view, acctVars, bankVars, catalogVars>>

(* member.borrow_book(book) *)
MemberBorrowBook(m, b) ==
    /\ LET out == Member_borrow_book(members[m], b)
       IN  /\ members' = [members EXCEPT ![m] = out.self]
           /\ lib_last' = [op |-> "Member.borrow_book", member |-> m,
                           book |-> b, ret |-> out.ret]
    /\ UNCHANGED <<total_people, books, now, borrowed_view, acctVars, bankVars, catalogVars>>

(* member.return_book(book) *)
MemberReturnBook(m, b) ==
    /\ LET out == Member_return_book(members[m], b, books)
       IN  /\ members' = [members EXCEPT ![m] = out.self]
           /\ lib_last' = [op |-> "Member.return_book", member |-> m,
                           book |-> b, ret |-> out.ret]
    /\ UNCHANGED <<total_people, books, now, borrowed_view, acctVars, bankVars, catalogVars>>

(* view = member.borrowed_books *)
ReadBorrowedBooks(m) ==
    /\ borrowed_view' = << [list |-> Member_borrowed_books(members[m]),
                            owner |-> m] >>
    /\ UNCHANGED <<total_people, members, books, now, lib_last,
                   acctVars, bankVars, catalogVars>>

\* the elements of the list the caller holds
ViewItems ==
    IF borrowed_view[1].list.alias
    THEN members[borrowed_view[1].owner].borrowed_books
    ELSE borrowed_view[1].list.items

\* the caller's list becomes `items`: the list object is the member's own
\* when it was handed out without a copy
SetView(items) ==
    /\ IF borrowed_view[1].list.alias
       THEN /\ members' = [members EXCEPT
                              ![borrowed_view[1].owner].borrowed_books = items]
            /\ UNCHANGED borrowed_view
       ELSE /\ borrowed_view' =
                   << [borrowed_view[1] EXCEPT !.list.items = items] >>
            /\ UNCHANGED members
    /\ UNCHANGED <<total_people, books, now, lib_last, acctVars, bankVars, catalogVars>>

(* view.append(book) *)
ViewAppend(b) ==
    /\ borrowed_view # <<>>
    /\ Len(ViewItems) < MaxViewLen
    /\ SetView(Append(ViewItems, b))

(* view.pop() *)
ViewPop ==
    /\ borrowed_view # <<>>
    /\ ViewItems # <<>>
    /\ SetView(SubSeq(ViewItems, 1, Len(ViewItems) - 1))

(* view.clear() *)
ViewClear ==
    /\ borrowed_view # <<>>
    /\ ViewItems # <<>>
    /\ SetView(<<>>)

NextBook ==
    \/ \E b \in DOMAIN books, m \in DOMAIN members, d \in LoanDays :
          BookBorrow(b, m, d)
    \/ \E b \in DOMAIN books : BookReturn(b)
    \/ Tick

SpecBook == InitLibrary /\ [][NextBook]_vars

\* the callers of the two read accessors, in either program
InitReads == InitAccount \/ InitLibrary

NextReads ==
    \/ \E a \in ReadAmounts : Deposit(a)
    \/ \E a \in ReadAmounts : Withdraw(a)
    \/ GetTransactionHistory
    \/ ReturnedAppend
    \/ ReturnedPop
    \/ ReturnedClear
    \/ \E m \in DOMAIN members : MemberBorrowBook(m, 1)
    \/ \E m \in DOMAIN members : MemberReturnBook(m, 1)
    \/ \E m \in DOMAIN members : ReadBorrowedBooks(m)
    \/ ViewAppend(1)
    \/ ViewPop
    \/ ViewClear

SpecReads == InitReads /\ [][NextReads]_vars

----------------------------------------------------------------------------
(* Books written out with to_dict / json.dumps and read back with          *)
(* from_json, between loans.                                               *)

(* Book.from_json(json.dumps(book.to_dict())) *)
BookRoundTrip(b) ==
    /\ LET dict == Book_to_dict(books[b], members)
       IN  lib_last' = [op |-> "Book.from_json", book |-> b, dict |-> dict,
                        ret |-> Book_from_json(json_dumps(dict))]
    /\ UNCHANGED <<total_people, members, books, now, borrowed_view,
                   catalogVars, acctVars, bankVars>>

NextSerial ==
    \/ \E b \in DOMAIN books, m \in DOMAIN members, d \in LoanDays :
          BookBorrow(b, m, d)
    \/ \E b \in DOMAIN books : BookReturn(b)
    \/ Tick
    \/ \E b \in DOMAIN books : BookRoundTrip(b)

SpecSerial == InitLibrary /\ [][NextSerial]_vars

----------------------------------------------------------------------------
(* Construction of account holders (banking program) and of people         *)
(* (library program), one after the other, and the setters of their        *)
(* attributes.                                                             *)

MaxPeople == 2

HolderNames == {"Alice Smith", "Alice Jones"}

InvalidEmail ==
    <<"i", "n", "v", "a", "l", "i", "d", "_", "e", "m", "a", "i", "l">>
Emails == {AliceEmail, InvalidEmail}

InitPeople ==
    /\ IdleAccount
    /\ IdleBank
    /\ IdleLibrary

(* holder.name = value *)
SetHolderName(h, value) ==
    /\ LET out == AccountHolder_set_name(holders[h], value)
       IN  /\ holders' = [holders EXCEPT ![h] = out.self]
           /\ bank_last' = [op |-> "AccountHolder.name", holder |-> h,
                            value |-> value, ret |-> out.ret]
    /\ UNCHANGED <<total_holders, bank, opened, threads, acctVars, libVars>>

(* Member(name, email, phone, membership_type) *)
NewMember(name, email, membership_type) ==
    /\ Len(members) + Len(librarians) < MaxPeople
    /\ members' = Append(members,
                         Member_init(name, email, "1234567890",
                                     membership_type, total_people, now))
    /\ total_people' = total_people + 1
    /\ lib_last' = [op |-> "Member", email |-> email]
    /\ UNCHANGED <<books, now, borrowed_view, library, librarians,
                   acctVars, bankVars>>

(* Librarian(name, email, phone, employee_id, department) *)
NewLibrarian(name, email) ==
    /\ Len(members) + Len(librarians) < MaxPeople
    /\ librarians' = Append(librarians,
                            Librarian_init(name, email, "5555555555",
                                           "EMP001", "IT", total_people, now))
    /\ total_people' = total_people + 1
    /\ lib_last' = [op |-> "Librarian", email |-> email]
    /\ UNCHANGED <<books, now, borrowed_view, library, members,
                   acctVars, bankVars>>

(* member.email = value *)
SetMemberEmail(m, value) ==
    /\ LET out == Person_set_email(members[m], value)
       IN  /\ members' = [members EXCEPT ![m] = out.self]
           /\ lib_last' = [op |-> "Member.email", person |-> m,
                           value |-> value, ret |-> out.ret]
    /\ UNCHANGED <<total_people, books, now, borrowed_view, catalogVars,
                   acctVars, bankVars>>

(* librarian.email = value *)
SetLibrarianEmail(l, value) ==
    /\ LET out == Person_set_email(librarians[l], value)
       IN  /\ librarians' = [librarians EXCEPT ![l] = out.self]
           /\ lib_last' = [op |-> "Librarian.email", person |-> l,
                           value |-> value, ret |-> out.ret]
    /\ UNCHANGED <<total_people, members, books, now, borrowed_view, library,
                   acctVars, bankVars>>

NextPeople ==
    \/ \E c \in HolderClasses, n \in HolderNames : NewHolder(c, n)
    \/ \E h \in DOMAIN holders, n \in HolderNames : SetHolderName(h, n)
    \/ \E e \in Emails : NewMember("Alice Johnson", e, "basic")
    \/ \E e \in Emails : NewLibrarian("Carol Admin", e)
    \/ \E m \in DOMAIN members, e \in Emails : SetMemberEmail(m, e)
    \/ \E l \in DOMAIN librarians, e \in Emails : SetLibrarianEmail(l, e)

SpecPeople == InitPeople /\ [][NextPeople]_vars

----------------------------------------------------------------------------
(* Holders constructed by threads that run at the same time.  The          *)
(* interpreter may switch threads between the statement that forms the id  *)
(* and the read and the write of `AccountHolder.total_holders += 1`.  The  *)
(* accounts are opened by calls that do not overlap.                       *)

Threads == {1, 2}

InitRace ==
    /\ IdleAccount
    /\ IdleLibrary
    /\ total_holders = 0
    /\ holders = <<>>
    /\ bank = Bank_init("Capital Trust Bank")
    /\ opened = <<>>
    /\ bank_last = [op |-> "create_national_bank"]
    /\ threads = [t \in Threads |-> [pc |-> "start"]]

(* AccountHolder.__init__ up to self._holder_id = self._generate_holder_id() *)
GenerateHolderId(t, class, name) ==
    /\ threads[t].pc = "start"
    /\ threads' = [threads EXCEPT ![t] =
                      [pc |-> "load", seen |-> total_holders,
                       self |-> AccountHolder_init(class, name, total_holders)]]
    /\ UNCHANGED <<total_holders, holders, bank, opened, bank_last,
                   acctVars, libVars>>

(* AccountHolder.total_holders += 1 : the read *)
LoadCounter(t) ==
    /\ threads[t].pc = "load"
    /\ threads' = [threads EXCEPT ![t] =
                      [pc |-> "store", seen |-> @.seen, self |-> @.self,
                       loaded |-> total_holders]]
    /\ UNCHANGED <<total_holders, holders, bank, opened, bank_last,
                   acctVars, libVars>>

(* AccountHolder.total_holders += 1 : the write; the constructor returns *)
StoreCounter(t) ==
    /\ threads[t].pc = "store"
    /\ total_holders' = threads[t].loaded + 1
    /\ holders' = Append(holders, threads[t].self)
    /\ threads' = [threads EXCEPT ![t] =
                      [pc |-> "done", seen |-> @.seen, ref |-> Len(holders) + 1]]
    /\ bank_last' = [op |-> threads[t].self.class]
    /\ UNCHANGED <<bank, opened, acctVars, libVars>>

NextRace ==
    \/ \E t \in Threads, c \in HolderClasses : GenerateHolderId(t, c, "Alice Smith")
    \/ \E t \in Threads : LoadCounter(t)
    \/ \E t \in Threads : StoreCounter(t)
    \/ \E h \in DOMAIN holders, n \in AccountNumbers :
          OpenAccount(h, <<"c", "h", "e", "c", "k", "i", "n", "g">>, 1000,
                      [overdraft_limit |-> R(250)], n)

SpecRace == InitRace /\ [][NextRace]_vars

----------------------------------------------------------------------------
(* A member's account: borrowing, returning, and changes of membership     *)
(* type.                                                                   *)

\* values assigned to membership_type: the valid ones and an unknown one
AssignedTypes == MembershipTypes \cup {"gold"}

(* member.membership_type = value *)
SetMembershipType(m, value) ==
    /\ LET out == Member_set_membership_type(members[m], value)
       IN  /\ members' = [members EXCEPT ![m] = out.self]
           /\ lib_last' = [op |-> "Member.membership_type", member |-> m,
                           value |-> value, ret |-> out.ret]
    /\ UNCHANGED <<total_people, books, now, borrowed_view, acctVars, bankVars,
                   catalogVars>>

NextMember ==
    \/ \E m \in DOMAIN members : MemberBorrowBook(m, 1)
    \/ \E m \in DOMAIN members : MemberReturnBook(m, 1)
    \/ \E m \in DOMAIN members, t \in AssignedTypes : SetMembershipType(m, t)

SpecMember == InitLibrary /\ [][NextMember]_vars

----------------------------------------------------------------------------
(* The library program with its Library object: a catalog of books and the *)
(* registered members.  A third Book object carries the ISBN of the first, *)
(* and a third Member object the id of the first: its construction read    *)
(* Person.total_people before the first one had incremented it.            *)

Isbns == {"978-0123456789", "978-9876543210", "978-0000000000"}

InitCatalog ==
    /\ IdleAccount
    /\ IdleBank
    /\ members = << Member_init("Alice Johnson", AliceEmail,
                                "1234567890", "premium", 0, 0),
                    Member_init("Bob Wilson", BobEmail,
                                "0987654321", "student", 1, 0),
                    Member_init("Alice Jones", AliceEmail,
                                "1234567890", "basic", 0, 0) >>
    /\ total_people = 2
    /\ books = << Book_init("Python Programming", "John Smith",
                            "978-0123456789", 2023, "Programming"),
                  Book_init("Data Structures", "Jane Doe",
                            "978-9876543210", 2022, "Computer Science"),
                  Book_init("Python Programming, 2nd ed.", "John Smith",
                            "978-0123456789", 2024, "Programming") >>
    /\ now = 0
    /\ borrowed_view = <<>>
    /\ lib_last = [op |-> "none"]
    /\ library = Library_init("City Public Library", "123 Main Street")
    /\ librarians = <<>>

(* library.add_book(book) *)
LibraryAddBook(b) ==
    /\ LET out == Library_add_book(library, b, books)
       IN  /\ library' = out.self
           /\ lib_last' = [op |-> "Library.add_book", book |-> b,
                           ret |-> out.ret]
    /\ UNCHANGED <<total_people, members, books, now, borrowed_view,
                   librarians, acctVars, bankVars>>

(* library.remove_book(isbn) *)
LibraryRemoveBook(isbn) ==
    /\ LET out == Library_remove_book(library, isbn, books)
       IN  /\ library' = out.self
           /\ lib_last' = [op |-> "Library.remove_book", isbn |-> isbn,
                           ret |-> out.ret]
    /\ UNCHANGED <<total_people, members, books, now, borrowed_view,
                   librarians, acctVars, bankVars>>

(* library.add_member(member) *)
LibraryAddMember(m) ==
    /\ LET out == Library_add_member(library, m, members)
       IN  /\ library' = out.self
           /\ lib_last' = [op |-> "Library.add_member", member |-> m,
                           ret |-> out.ret]
    /\ UNCHANGED <<total_people, members, books, now, borrowed_view,
                   librarians, acctVars, bankVars>>

(* library.get_member_borrowed_books(member) *)
LibraryGetMemberBorrowedBooks(m) ==
    /\ lib_last' = [op |-> "Library.get_member_borrowed_books", member |-> m,
                    list |-> Library_get_member_borrowed_books(library, m,
                                                               books, members)]
    /\ UNCHANGED <<total_people, members, books, now, borrowed_view,
                   library, librarians, acctVars, bankVars>>

(* library.generate_report() and len(library) *)
LibraryGenerateReport ==
    /\ lib_last' = [op |-> "Library.generate_report",
                    report |-> Library_generate_report(library, books, now),
                    len |-> Library_len(library)]
    /\ UNCHANGED <<total_people, members, books, now, borrowed_view,
                   library, librarians, acctVars, bankVars>>

NextLibrary ==
    \/ \E b \in DOMAIN books : LibraryAddBook(b)
    \/ \E isbn \in Isbns : LibraryRemoveBook(isbn)
    \/ \E m \in DOMAIN members : LibraryAddMember(m)
    \/ \E m \in DOMAIN members : LibraryGetMemberBorrowedBooks(m)
    \/ \E b \in DOMAIN books, m \in DOMAIN members : BookBorrow(b, m, DefaultDays)
    \/ \E b \in DOMAIN books : BookReturn(b)
    \/ LibraryGenerateReport

SpecLibrary == InitCatalog /\ [][NextLibrary]_vars

----------------------------------------------------------------------------
(* Loans seen from both sides: the books and members of the demonstration, *)
(* all added to the library, with calls on the books and on the members.   *)

MaxLoans == 2

InitLoans ==
    /\ IdleAccount
    /\ IdleBank
    /\ members = << Member_init("Alice Johnson", AliceEmail,
                                "1234567890", "premium", 0, 0),
                    Member_init("Bob Wilson", BobEmail,
                                "0987654321", "student", 1, 0) >>
    /\ total_people = 2
    /\ books = << Book_init("Python Programming", "John Smith",
                            "978-0123456789", 2023, "Programming"),
                  Book_init("Data Structures", "Jane Doe",
                            "978-9876543210", 2022, "Computer Science") >>
    /\ now = 0
    /\ borrowed_view = <<>>
    /\ lib_last = [op |-> "none"]
    /\ library = [Library_init("City Public Library", "123 Main Street")
                    EXCEPT !.books = <<1, 2>>, !.members = <<1, 2>>]
    /\ librarians = <<>>

NextLoans ==
    \/ \E b \in DOMAIN books, m \in DOMAIN members : BookBorrow(b, m, DefaultDays)
    \/ \E b \in DOMAIN books : BookReturn(b)
    \/ \E m \in DOMAIN members, b \in DOMAIN books :
          /\ Len(members[m].borrowed_books) < MaxLoans
          /\ MemberBorrowBook(m, b)
    \/ \E m \in DOMAIN members, b \in DOMAIN books : MemberReturnBook(m, b)
    \/ \E m \in DOMAIN members : LibraryGetMemberBorrowedBooks(m)

SpecLoans == InitLoans /\ [][NextLoans]_vars

----------------------------------------------------------------------------
(* Properties of one account.                                              *)

LastCall == log[Len(log)]

\* a step that is one more call on the account
IsCall(op) == Len(log') = Len(log) + 1 /\ log'[Len(log')].op = op

Succeeded(e) ==
    \/ e.op \in {"deposit", "withdraw"} /\ e.ret = "True"
    \/ e.op = "apply_interest" /\ e.notice = "Applied interest"

\* signed effect of a call, read off what the caller saw
Effect(e) ==
    IF e.op = "__init__" THEN e.amount
    ELSE IF e.op = "deposit" /\ e.ret = "True" THEN e.amount
    ELSE IF e.op = "withdraw" /\ e.ret = "True" THEN RNeg(e.amount)
    ELSE IF e.op = "apply_interest" /\ e.notice = "Applied interest" THEN e.shown
    ELSE Zero

\* sum of the effects of the first k calls
RECURSIVE SumEffects(_, _)
SumEffects(calls, k) ==
    IF k = 0 THEN Zero
    ELSE RAdd(SumEffects(calls, k - 1), Effect(calls[k]))

\* C1: the balance of a checking or savings account is the initial balance
\* plus the signed effects of the calls that succeeded; denied and raising
\* calls contribute nothing.
C1_BalanceIsSumOfEffects ==
    IsAccount => account.balance = SumEffects(log, Len(log))

C1_Witness ==
    /\ IsAccount
    /\ \E i, j, k, l \in 2..Len(log) :
          /\ log[i].op = "deposit" /\ log[i].ret = "True"
          /\ log[j].op = "withdraw" /\ log[j].ret = "False"
          /\ log[k].ret = "ValueError"
          /\ log[l].op = "apply_interest" /\ log[l].notice = "Applied interest"

\* C2: len(account) is the number of calls that changed the balance, plus
\* one for the initial deposit exactly when initial_balance > 0.
C2_HistoryLength ==
    IsAccount =>
        Account_len(account) =
            Cardinality({i \in 2..Len(log) : Succeeded(log[i])})
            + (IF RLt(Zero, log[1].amount) THEN 1 ELSE 0)

C2_Witness ==
    /\ IsAccount
    /\ log[1].amount = Zero
    /\ \E i, j, k \in 2..Len(log) :
          /\ Succeeded(log[i])
          /\ log[j].ret = "False"
          /\ log[k].ret = "ValueError"

\* one WITHDRAWAL of `amount` is appended and the balance goes down by it
Withdrawn(amount) ==
    /\ account'.balance = RSub(account.balance, amount)
    /\ Len(account'.transaction_history) = Len(account.transaction_history) + 1
    /\ SubSeq(account'.transaction_history, 1, Len(account.transaction_history))
         = account.transaction_history
    /\ LET t == account'.transaction_history[Len(account'.transaction_history)]
       IN  t.type = WITHDRAWAL /\ t.amount = amount

C3_Step ==
    (IsCall("withdraw") /\ account.class = "CheckingAccount"
        /\ RLt(Zero, log'[Len(log')].amount)) =>
      LET e == log'[Len(log')]
      IN  IF RLeq(e.amount, RAdd(account.balance, account.overdraft_limit))
          THEN e.ret = "True" /\ Withdrawn(e.amount)
          ELSE e.ret = "False" /\ account' = account

\* the calls of demonstrate_banking_system on alice_checking, the value
\* each returns and the balance after each
DemoCalls == << <<"__init__", 1000>>, <<"deposit", 200>>, <<"withdraw", 50>>,
                <<"withdraw", 1500>>, <<"withdraw", 1300>> >>
DemoReturns == << "None", "True", "True", "False", "True" >>
DemoBalances == << 1000, 1200, 1150, 1150, -150 >>

FollowsDemo ==
    /\ account.class = "CheckingAccount"
    /\ account.overdraft_limit = R(250)
    /\ Len(log) <= Len(DemoCalls)
    /\ \A i \in 1..Len(log) :
          log[i].op = DemoCalls[i][1] /\ log[i].amount = R(DemoCalls[i][2])

C3_Demo ==
    FollowsDemo =>
        /\ LastCall.ret = DemoReturns[Len(log)]
        /\ account.balance = R(DemoBalances[Len(log)])

\* C3: CheckingAccount.withdraw(amount) with amount > 0 returns True, takes
\* exactly amount off the balance and appends one WITHDRAWAL iff
\* balance + overdraft_limit >= amount; otherwise it returns False and leaves
\* the account as it was.  The demonstration run (1000, overdraft 250:
\* deposit 200, withdraw 50, withdraw 1500 denied, withdraw 1300) ends at -150.
C3_CheckingWithdraw == [][C3_Step]_vars /\ []C3_Demo

C3_Witness == FollowsDemo /\ Len(log) = Len(DemoCalls)

C4_Step ==
    (IsCall("withdraw") /\ account.class = "SavingsAccount"
        /\ RLt(Zero, log'[Len(log')].amount)) =>
      LET e == log'[Len(log')]
      IN  IF RLeq(e.amount, account.balance)
          THEN e.ret = "True" /\ Withdrawn(e.amount)
          ELSE e.ret = "False" /\ account' = account

\* C4: SavingsAccount.withdraw(amount) with amount > 0 returns True, takes
\* exactly amount off the balance and appends one WITHDRAWAL iff
\* balance >= amount; otherwise it returns False and leaves the account as
\* it was.
C4_SavingsWithdraw == [][C4_Step]_vars

\* a withdrawal of the whole balance was admitted and a larger one denied
C4_Witness ==
    /\ account.class = "SavingsAccount"
    /\ account.balance = Zero
    /\ \E i \in 2..Len(log) :
          /\ log[i].op = "withdraw" /\ log[i].ret = "True"
          /\ \E j \in (i+1)..Len(log) :
                log[j].op = "withdraw" /\ log[j].ret = "False"

C5_Step ==
    ((IsCall("deposit") \/ IsCall("withdraw"))
        /\ RLeq(log'[Len(log')].amount, Zero)) =>
      /\ log'[Len(log')].ret = "ValueError"
      /\ account' = account

\* C5: deposit and withdraw with amount <= 0 raise a validation error and
\* leave balance and history exactly as they were.
C5_NonPositiveRaises == [][C5_Step]_vars

C5_Witness ==
    /\ IsAccount
    /\ RLt(account.balance, Zero)
    /\ \E i, j \in 2..Len(log) :
          /\ log[i].op = "deposit" /\ log[i].amount = Zero
          /\ log[i].ret = "ValueError"
          /\ log[j].op = "withdraw" /\ RLt(log[j].amount, Zero)
          /\ log[j].ret = "ValueError"

C6_Step ==
    IsCall("apply_interest") =>
      LET interest == RMul(account.balance, account.interest_rate)
          before == account.transaction_history
          after == account'.transaction_history
      IN  IF RLeq(interest, Zero)
          THEN account' = account
          ELSE /\ account'.balance = RAdd(account.balance, interest)
               /\ Len(after) = Len(before) + 1
               /\ SubSeq(after, 1, Len(before)) = before
               /\ after[Len(after)].type = INTEREST
               /\ after[Len(after)].amount = interest

\* balance after n interest credits at 2% on 5000
CompoundedBalances == << R(5100), R(5202), Norm(530604, 100) >>

C6_Example ==
    (/\ account.class = "SavingsAccount"
     /\ account.interest_rate = Norm(2, 100)
     /\ log[1].amount = R(5000)
     /\ Len(log) - 1 \in 1..Len(CompoundedBalances)
     /\ \A i \in 2..Len(log) : log[i].op = "apply_interest") =>
        /\ account.balance = CompoundedBalances[Len(log) - 1]
        /\ Account_len(account) = Len(log)

\* C6: apply_interest computes balance * interest_rate on the current
\* balance; when that is <= 0 the account is unchanged, otherwise the balance
\* grows by exactly that amount and one INTEREST transaction carrying it is
\* appended (5000 at 0.02 becomes 5100); repeated calls compound.
C6_ApplyInterest == [][C6_Step]_vars /\ []C6_Example

C6_Witness ==
    /\ account.class = "SavingsAccount"
    /\ account.interest_rate = Norm(2, 100)
    /\ log[1].amount = R(5000)
    /\ Len(log) = 3
    /\ \A i \in 2..Len(log) : log[i].op = "apply_interest"
    /\ account.balance = R(5202)

----------------------------------------------------------------------------
(* Properties of the bank.                                                 *)

\* two strings that differ at most in the case of their letters
SameIgnoringCase(a, b) ==
    /\ Len(a) = Len(b)
    /\ \A i \in DOMAIN a :
          \/ a[i] = b[i]
          \/ \E k \in DOMAIN UpperCase :
                {a[i], b[i]} = {UpperCase[k], LowerCase[k]}

NamesChecking(t) == SameIgnoringCase(t, <<"c", "h", "e", "c", "k", "i", "n", "g">>)
NamesSavings(t) == SameIgnoringCase(t, <<"s", "a", "v", "i", "n", "g", "s">>)

C7_Step ==
    bank_last'.op = "open_account" =>
      LET t == bank_last'.account_type
          r == bank_last'.ret
      IN  IF NamesChecking(t) \/ NamesSavings(t)
          THEN /\ r # NoRef
               /\ opened' = Append(opened, opened'[r])
               /\ r = Len(opened')
               /\ opened'[r].class = IF NamesChecking(t) THEN "CheckingAccount"
                                      ELSE "SavingsAccount"
               /\ Bank_find_account(bank', opened'[r].account_number) = r
          ELSE /\ r = NoRef
               /\ opened' = opened
               /\ bank'.accounts = bank.accounts
               /\ Bank_len(bank') = Bank_len(bank)

\* C7: open_account with a type string that matches neither "checking" nor
\* "savings" in any letter case returns None and leaves the account map and
\* the account count unchanged; with a matching string in any letter case it
\* builds that variant, stores it under its account number and returns it.
C7_OpenAccountDispatch == [][C7_Step]_vars

\* a savings account was opened (by "SAVINGS") and "saving" was then refused
C7_Witness ==
    /\ bank_last.op = "open_account"
    /\ bank_last.account_type = <<"s", "a", "v", "i", "n", "g">>
    /\ bank_last.ret = NoRef
    /\ Bank_len(bank) = 1
    /\ \E i \in DOMAIN opened : opened[i].class = "SavingsAccount"

\* C8: every account an earlier open_account returned is still the account
\* find_account returns for its number, and len(bank) is the number of
\* successful open_account calls.
C8_AccountsKept ==
    bank # NoObject =>
      /\ \A i \in DOMAIN opened :
            Bank_find_account(bank, opened[i].account_number) = i
      /\ Bank_len(bank) = Len(opened)

----------------------------------------------------------------------------
(* Properties of the read accessors.                                       *)

CallerChangesHistory == ReturnedAppend \/ ReturnedPop \/ ReturnedClear

CallerChangesView ==
    \/ \E b \in DOMAIN books : ViewAppend(b)
    \/ ViewPop
    \/ ViewClear

C9_Step ==
    /\ CallerChangesHistory =>
          /\ account'.transaction_history = account.transaction_history
          /\ Account_len(account') = Account_len(account)
          /\ Account_get_transaction_history(account').items
                = account.transaction_history
    /\ CallerChangesView =>
          \A m \in DOMAIN members :
            /\ members'[m].borrowed_books = members[m].borrowed_books
            /\ Member_borrowed_books(members'[m]).items
                  = members[m].borrowed_books
            /\ \A b \in DOMAIN books :
                  Member_borrow_book(members'[m], b).ret
                    = Member_borrow_book(members[m], b).ret

\* C9: when a caller appends to, removes from or clears the list returned by
\* get_transaction_history() (by Member.borrowed_books), the account's
\* history and len(account) (the member's borrowed list and the outcome of
\* the quota check of borrow_book) stay as they were and a later read gives
\* the unmodified sequence.
C9_ReadsAreCopies == [][C9_Step]_vars

\* a member at its quota whose caller emptied the list it was handed, and
\* borrow_book still refused
C9_Witness ==
    /\ borrowed_view # <<>>
    /\ LET m == borrowed_view[1].owner
       IN  /\ Len(members[m].borrowed_books) = max_books[members[m].membership_type]
           /\ borrowed_view[1].list.items = <<>>
           /\ lib_last.op = "Member.borrow_book"
           /\ lib_last.member = m
           /\ lib_last.ret = "False"

----------------------------------------------------------------------------
(* Properties of a book.                                                   *)

C10_Step ==
    \A b \in DOMAIN books :
      /\ \A m \in DOMAIN members, d \in LoanDays :
            BookBorrow(b, m, d) =>
              IF books[b].is_available
              THEN /\ lib_last'.ret = "True"
                   /\ ~books'[b].is_available
                   /\ books'[b].borrower = m
                   /\ books'[b].due_date = <<now + d>>
              ELSE /\ lib_last'.ret = "False"
                   /\ books'[b] = books[b]
      /\ BookReturn(b) =>
              IF ~books[b].is_available
              THEN /\ lib_last'.ret = "True"
                   /\ books'[b].is_available
                   /\ books'[b].borrower = NoRef
                   /\ books'[b].due_date = NoDate
              ELSE /\ lib_last'.ret = "False"
                   /\ books'[b] = books[b]

\* C10: borrow on an available book succeeds and sets is_available false,
\* the borrower and due_date = now + days; borrow on a borrowed book returns
\* False and keeps the first borrower and due date; return_book on a
\* borrowed book succeeds and restores available / no borrower / no due
\* date; return_book on an available book returns False and changes nothing.
C10_BorrowReturn == [][C10_Step]_vars

\* a second member was refused a borrowed book, which kept its borrower and
\* a due date set at an earlier time
C10_Witness ==
    /\ lib_last.op = "Book.borrow"
    /\ lib_last.ret = "False"
    /\ LET bk == books[lib_last.book]
       IN  /\ ~bk.is_available
           /\ bk.borrower # NoRef
           /\ bk.borrower # lib_last.member
           /\ bk.due_date # NoDate
           /\ bk.due_date[1] < now + 1

\* the books of the catalog that carry `isbn`
Held(isbn) ==
    {i \in DOMAIN library.books : books[library.books[i]].isbn = isbn}

\* the elements of a list of references
Elems(list) == {list[i] : i \in DOMAIN list}

C11_Step ==
    \A isbn \in Isbns :
       LibraryRemoveBook(isbn) =>
          IF \E i \in Held(isbn) : books[library.books[i]].is_available
          THEN /\ lib_last'.ret = "True"
               /\ Len(library'.books) = Len(library.books) - 1
               /\ Elems(library'.books) =
                     {b \in Elems(library.books) : books[b].isbn # isbn}
          ELSE /\ lib_last'.ret = "False"
               /\ library' = library

C11_BorrowedListed ==
    \A b \in Elems(library.books), m \in DOMAIN members :
       (~books[b].is_available /\ books[b].borrower = m) =>
          b \in Elems(Library_get_member_borrowed_books(library, m,
                                                        books, members))

\* C11: remove_book(isbn) returns True and removes the book exactly when the
\* library holds a book with that ISBN and that book is available; otherwise
\* (no such book, or the book is borrowed) it returns False and the catalog
\* is unchanged, so the same call succeeds once the book was returned.  A
\* held book borrowed by a member is listed by
\* get_member_borrowed_books(member).
C11_RemoveBook == [][C11_Step]_vars /\ []C11_BorrowedListed

\* remove_book was refused for a held book that a member has borrowed, and
\* that member's borrowed books list it
C11_Witness ==
    /\ lib_last.op = "Library.remove_book"
    /\ lib_last.ret = "False"
    /\ \E i \in Held(lib_last.isbn) :
          LET b == library.books[i]
          IN  /\ ~books[b].is_available
              /\ books[b].borrower # NoRef
              /\ b \in Elems(Library_get_member_borrowed_books(
                            library, books[b].borrower, books, members))

\* C12: for every Member, in every state reachable by borrow_book,
\* return_book and membership_type assignments, the number of borrowed
\* books is at most the quota of the member's current membership type
\* (basic 3, premium 10, student 5).
C12_WithinQuota ==
    \A m \in DOMAIN members :
       Len(members[m].borrowed_books) <= max_books[members[m].membership_type]

\* the Person objects constructed so far
People == Elems(members) \cup Elems(librarians)

C13_Unique ==
    /\ total_holders = Len(holders)
    /\ \A i \in DOMAIN holders :
          /\ holders[i].holder_id[1] = "HOLDER-"
          /\ Len(holders[i].holder_id) = 5
          /\ Value(Tail(holders[i].holder_id)) = i
    /\ \A i, j \in DOMAIN holders :
          i # j => holders[i].holder_id # holders[j].holder_id
    /\ total_people = Len(members) + Len(librarians)
    /\ \A i \in DOMAIN members, j \in DOMAIN members :
          i # j => members[i].id # members[j].id
    /\ \A i \in DOMAIN librarians, j \in DOMAIN librarians :
          i # j => librarians[i].id # librarians[j].id
    /\ \A i \in DOMAIN members, j \in DOMAIN librarians :
          members[i].id # librarians[j].id
    /\ \A i \in DOMAIN members :
          SubSeq(members[i].id, 1, 3) = <<"M", "E", "M">>
    /\ \A j \in DOMAIN librarians :
          SubSeq(librarians[j].id, 1, 3) = <<"L", "I", "B">>
    /\ {Value(SubSeq(p.id, 4, Len(p.id))) : p \in People} = 1..total_people

C13_Step ==
    /\ total_holders' - total_holders = Len(holders') - Len(holders)
    /\ total_holders' - total_holders \in {0, 1}
    /\ \A i \in DOMAIN holders :
          /\ i \in DOMAIN holders'
          /\ holders'[i].holder_id = holders[i].holder_id
    /\ total_people' - total_people =
          (Len(members') + Len(librarians')) - (Len(members) + Len(librarians))
    /\ total_people' - total_people \in {0, 1}
    /\ \A i \in DOMAIN members :
          i \in DOMAIN members' /\ members'[i].id = members[i].id
    /\ \A j \in DOMAIN librarians :
          j \in DOMAIN librarians' /\ librarians'[j].id = librarians[j].id

\* C13: holder ids, and person ids, are unique among the instances built
\* one after the other; the k-th instance carries the number k, the value of
\* the instance counter plus one at its construction, and each construction
\* raises the counter by exactly one; an instance's id never changes
\* afterwards, whatever is assigned to its name or its e-mail.
C13_UniqueIds == []C13_Unique /\ [][C13_Step]_vars

\* two holders exist and the name of one was reassigned; a member and a
\* librarian exist side by side
C13_Witness ==
    /\ Len(holders) = 2
    /\ bank_last.op = "AccountHolder.name"
    /\ holders[1].name # holders[2].name
    /\ holders[1].holder_id # holders[2].holder_id
    /\ members # <<>>
    /\ librarians # <<>>
    /\ members[1].id # librarians[1].id

\* C18: every Person (Member or Librarian) has an e-mail containing "@" in
\* every reachable state: an e-mail without "@" is rejected, both when it
\* is assigned through the setter and when the person is constructed.
C18_EmailHasAt ==
    /\ \A m \in DOMAIN members : Contains(members[m].email, "@")
    /\ \A l \in DOMAIN librarians : Contains(librarians[l].email, "@")

\* C14: Book.from_json applied to the JSON encoding of b.to_dict() yields a
\* book with the title, author, isbn, publication_year and genre of b
\* (equal to b by ISBN) that is available, with no borrower and no due date,
\* whatever the state of b; to_dict reports the borrower's name and the due
\* date as a string exactly when b is borrowed, and None for both otherwise.
C14_RoundTrip ==
    lib_last.op = "Book.from_json" =>
       LET b == books[lib_last.book]
           r == lib_last.ret
           d == lib_last.dict
       IN  /\ r.title = b.title
           /\ r.author = b.author
           /\ r.isbn = b.isbn
           /\ r.publication_year = b.publication_year
           /\ r.genre = b.genre
           /\ Book_eq(r, b)
           /\ r.is_available
           /\ r.borrower = NoRef
           /\ r.due_date = NoDate
           /\ Item(d, "is_available") = PyBool(b.is_available)
           /\ IF ~b.is_available
              THEN /\ Item(d, "borrower") = PyStr(members[b.borrower].name)
                   /\ Item(d, "due_date").type = "str"
              ELSE /\ Item(d, "borrower") = PyNone
                   /\ Item(d, "due_date") = PyNone

\* a borrowed book was written out and read back: the copy is available
\* and has no borrower, while the dict named the borrower
C14_Witness ==
    /\ lib_last.op = "Book.from_json"
    /\ ~books[lib_last.book].is_available
    /\ lib_last.ret.is_available
    /\ Item(lib_last.dict, "borrower").type = "str"

\* C16: for every Book, in every state reachable by borrow and return_book,
\* exactly one holds: the book is available with no borrower and no due
\* date, or it is borrowed with both a borrower and a due date set.
C16_BookState ==
    \A b \in DOMAIN books :
       \/ /\ books[b].is_available
          /\ books[b].borrower = NoRef
          /\ books[b].due_date = NoDate
       \/ /\ ~books[b].is_available
          /\ books[b].borrower \in DOMAIN members
          /\ books[b].due_date # NoDate

\* one book is out on loan while another was just returned
C16_Witness ==
    /\ lib_last.op = "Book.return_book"
    /\ lib_last.ret = "True"
    /\ books[lib_last.book].is_available
    /\ books[lib_last.book].borrower = NoRef
    /\ \E b \in DOMAIN books :
          /\ ~books[b].is_available
          /\ books[b].borrower # NoRef
          /\ books[b].due_date # NoDate

\* signed effect of a history entry
EntryEffect(t) ==
    IF t.type \in {DEPOSIT, INTEREST} THEN t.amount
    ELSE IF t.type = WITHDRAWAL THEN RNeg(t.amount)
    ELSE Zero

\* sum of the signed effects of the first k history entries
RECURSIVE SumHistory(_, _)
SumHistory(history, k) ==
    IF k = 0 THEN Zero
    ELSE RAdd(SumHistory(history, k - 1), EntryEffect(history[k]))

\* the history after a step starts with the history before it
HistoryGrows ==
    IsAccount =>
       /\ Len(account'.transaction_history) >= Len(account.transaction_history)
       /\ SubSeq(account'.transaction_history, 1,
                 Len(account.transaction_history)) = account.transaction_history

C15_BalanceIsHistorySum ==
    IsAccount =>
       account.balance = SumHistory(account.transaction_history,
                                    Len(account.transaction_history))

\* C15: in every reachable state of an Account of either variant, whatever
\* initial_balance it was built with (zero and negative values included),
\* the balance equals the sum of the signed effects of its history entries
\* (DEPOSIT and INTEREST positive, WITHDRAWAL negative), and the history only
\* grows by appending.
C15_BalanceFromHistory == []C15_BalanceIsHistorySum /\ [][HistoryGrows]_vars

C17_AmountsPositive ==
    IsAccount =>
       \A i \in DOMAIN account.transaction_history :
          /\ RLt(Zero, account.transaction_history[i].amount)
          /\ account.transaction_history[i].type \in {DEPOSIT, WITHDRAWAL, INTEREST}

C17_Step ==
    IsAccount =>
       \A i \in DOMAIN account.transaction_history :
          /\ i \in DOMAIN account'.transaction_history
          /\ account'.transaction_history[i] = account.transaction_history[i]

\* C17: every Transaction recorded in an account's history (initial
\* deposit, DEPOSIT, WITHDRAWAL, INTEREST) has an amount > 0, and an entry,
\* once appended, keeps its amount and type.
C17_PositiveAmounts == []C17_AmountsPositive /\ [][C17_Step]_vars

\* a savings account opened with a positive balance recorded a withdrawal
\* and an interest credit after a non-positive amount was refused
C17_Witness ==
    /\ IsAccount
    /\ \E i, j, k \in DOMAIN account.transaction_history :
          /\ account.transaction_history[i].description = "Initial Deposit"
          /\ account.transaction_history[j].type = WITHDRAWAL
          /\ account.transaction_history[k].type = INTEREST
    /\ \E l \in DOMAIN log : log[l].ret = "ValueError"

C20_Bounded ==
    (/\ IsAccount
     /\ account.class = "CheckingAccount"
     /\ RLeq(Zero, account.overdraft_limit)
     /\ RLeq(RNeg(account.overdraft_limit), log[1].amount))
      => RLeq(RNeg(account.overdraft_limit), account.balance)

C20_Tight ==
    (/\ IsCall("withdraw")
     /\ account.class = "CheckingAccount"
     /\ RLt(Zero, log'[Len(log')].amount)
     /\ log'[Len(log')].amount = RAdd(account.balance, account.overdraft_limit))
      => /\ log'[Len(log')].ret = "True"
         /\ account'.balance = RNeg(account.overdraft_limit)

\* C20: a CheckingAccount built with overdraft_limit >= 0 and
\* initial_balance >= -overdraft_limit keeps balance >= -overdraft_limit in
\* every state reached by deposit and withdraw; the bound is tight: a
\* withdrawal of exactly balance + overdraft_limit is admitted and leaves
\* balance = -overdraft_limit.
C20_OverdraftBound == []C20_Bounded /\ [][C20_Tight]_vars

\* a withdrawal took a checking account with a positive overdraft limit
\* exactly down to minus that limit
C20_Witness ==
    /\ IsAccount
    /\ account.class = "CheckingAccount"
    /\ RLt(Zero, account.overdraft_limit)
    /\ RLeq(RNeg(account.overdraft_limit), log[1].amount)
    /\ LastCall.op = "withdraw"
    /\ LastCall.ret = "True"
    /\ account.balance = RNeg(account.overdraft_limit)

\* the threads whose holder carries an id already
Formed == {t \in Threads : threads[t].pc \in {"load", "store"}}
Built == {t \in Threads : threads[t].pc = "done"}

\* the id of the holder thread t is building or has built
IdOf(t) ==
    IF t \in Built THEN holders[threads[t].ref].holder_id
    ELSE threads[t].self.holder_id

\* the accounts opened, in the order of the calls, for holders carrying `id`
OpenedFor(id) ==
    {a \in DOMAIN opened : holders[opened[a].holder].holder_id = id}

C19_Ids ==
    /\ \A t, u \in Formed \cup Built :
          (IdOf(t) = IdOf(u)) <=> (threads[t].seen = threads[u].seen)
    /\ \A t \in Formed \cup Built : Value(Tail(IdOf(t))) = threads[t].seen + 1
    /\ total_holders <= Cardinality(Built)

C19_Registered ==
    /\ \A id \in DOMAIN bank.clients :
          /\ OpenedFor(id) # {}
          /\ \E a \in OpenedFor(id) :
                /\ \A b \in OpenedFor(id) : a <= b
                /\ bank.clients[id] = opened[a].holder
    /\ \A a \in DOMAIN opened :
          holders[opened[a].holder].holder_id \in DOMAIN bank.clients

C19_Step ==
    \A h \in DOMAIN holders, n \in AccountNumbers :
       OpenAccount(h, <<"c", "h", "e", "c", "k", "i", "n", "g">>, 1000,
                   [overdraft_limit |-> R(250)], n) =>
          IF holders[h].holder_id \in DOMAIN bank.clients
          THEN bank'.clients = bank.clients
          ELSE bank'.clients = DictSet(bank.clients, holders[h].holder_id, h)

\* C19: a construction forms the holder id from total_holders + 1 and adds
\* one to the counter in later steps, so two holders carry the same id
\* exactly when both read the same counter value, and the counter never
\* exceeds the number of holders built; open_account registers a holder only
\* when no holder with that id is registered, so of holders sharing an id
\* the client map keeps the first one an account was opened for.
C19_IdRace == []C19_Ids /\ []C19_Registered /\ [][C19_Step]_vars

\* two interleaved constructions produced two distinct holders with one
\* id; an account was opened for each, and the client map holds only the
\* holder of the first account
C19_Witness ==
    \E i, j \in DOMAIN holders :
       /\ i # j
       /\ holders[i] # holders[j]
       /\ holders[i].holder_id = holders[j].holder_id
       /\ \E a, b \in DOMAIN opened :
             /\ a < b
             /\ opened[a].holder = i
             /\ opened[b].holder = j
       /\ DOMAIN bank.clients = {holders[i].holder_id}
       /\ bank.clients[holders[i].holder_id] = i

C21_NonNegative ==
    (/\ IsAccount
     /\ account.class = "SavingsAccount"
     /\ RLeq(Zero, log[1].amount))
      => RLeq(Zero, account.balance)

C21_Step ==
    (IsAccount /\ account.class = "SavingsAccount") =>
       /\ IsCall("apply_interest")
             => RLeq(Zero, RSub(account'.balance, account.balance))
       /\ (IsCall("withdraw") /\ RLeq(Zero, account.balance))
             => RLeq(Zero, account'.balance)

\* C21: a SavingsAccount built with initial_balance >= 0 keeps balance >= 0
\* in every state reached by deposit, withdraw and apply_interest, for a
\* positive, zero or negative interest rate: withdraw never takes the
\* balance below zero and apply_interest never lowers it.
C21_SavingsNonNegative == []C21_NonNegative /\ [][C21_Step]_vars

\* on a savings account with a negative rate and a positive balance, a
\* withdrawal was admitted, a larger one refused, and apply_interest then
\* left the balance as it was
C21_Witness ==
    /\ IsAccount
    /\ account.class = "SavingsAccount"
    /\ RLt(account.interest_rate, Zero)
    /\ RLt(Zero, account.balance)
    /\ LastCall.op = "apply_interest"
    /\ LastCall.notice = ""
    /\ \E i, j \in DOMAIN log :
          /\ log[i].op = "withdraw" /\ log[i].ret = "True"
          /\ log[j].op = "withdraw" /\ log[j].ret = "False"

C22_Step ==
    bank_last'.op = "open_account" =>
       LET h == bank_last'.holder
       IN  /\ Bank_contains_holder(bank', holders[h])
           /\ DOMAIN bank'.clients =
                 DOMAIN bank.clients \cup {holders[h].holder_id}
           /\ \A id \in DOMAIN bank.clients :
                 bank'.clients[id] = bank.clients[id]
           /\ (holders[h].holder_id \notin DOMAIN bank.clients)
                 => bank'.clients[holders[h].holder_id] = h

C22_Kept ==
    bank_last.op = "open_account" =>
       Bank_contains_holder(bank, holders[bank_last.holder])

\* C22: after any open_account call, also one that fails on an unrecognized
\* account type and builds no account, the holder passed in is contained in
\* the bank; the registration is never undone, and a holder_id present in
\* the client map is never replaced by a later call.
C22_RegistersHolder == [][C22_Step]_vars /\ []C22_Kept

\* open_account refused an unrecognized type for a holder that owns no
\* account, and that holder is in the bank
C22_Witness ==
    /\ bank_last.op = "open_account"
    /\ bank_last.ret = NoRef
    /\ Bank_contains_holder(bank, holders[bank_last.holder])
    /\ bank.clients[holders[bank_last.holder].holder_id] = bank_last.holder
    /\ \A a \in DOMAIN opened : opened[a].holder # bank_last.holder
    /\ Bank_len(bank) = 0

C23_Step ==
    /\ lib_last'.op \in {"Book.borrow", "Book.return_book"}
          => members' = members
    /\ lib_last'.op \in {"Member.borrow_book", "Member.return_book"}
          => books' = books
    /\ lib_last'.op = "Member.borrow_book" =>
          LET m == lib_last'.member
          IN  IF Len(members[m].borrowed_books)
                    < max_books[members[m].membership_type]
              THEN /\ lib_last'.ret = "True"
                   /\ members'[m].borrowed_books =
                         Append(members[m].borrowed_books, lib_last'.book)
              ELSE /\ lib_last'.ret = "False"
                   /\ members' = members

\* C23: Book.borrow and Book.return_book never change a Member's borrowed
\* list; Member.borrow_book and Member.return_book never change a Book's
\* availability, borrower or due date, and borrow_book looks at the length
\* of the list only: below the quota it appends the book, be the book
\* unavailable or in the list already.
C23_IndependentSides == [][C23_Step]_vars

\* a member took, on the member side, a book twice that is out on loan to
\* someone else on the book side; the library's view of the member's loans
\* differs from the member's own list
C23_Witness ==
    /\ lib_last.op = "Member.borrow_book"
    /\ lib_last.ret = "True"
    /\ LET m == lib_last.member
           b == lib_last.book
       IN  /\ ~books[b].is_available
           /\ books[b].borrower # m
           /\ Cardinality({i \in DOMAIN members[m].borrowed_books :
                              members[m].borrowed_books[i] = b}) = 2
           /\ Library_get_member_borrowed_books(library, m, books, members)
                 # members[m].borrowed_books

C24_NoDuplicates ==
    /\ \A i, j \in DOMAIN library.books :
          i # j => books[library.books[i]].isbn # books[library.books[j]].isbn
    /\ \A i, j \in DOMAIN library.members :
          i # j => members[library.members[i]].id # members[library.members[j]].id

C24_Report ==
    lib_last.op = "Library.generate_report" =>
       /\ lib_last.report.available_books + lib_last.report.borrowed_books
             = lib_last.report.total_books
       /\ lib_last.report.total_books = lib_last.len
       /\ lib_last.len = Len(library.books)
       /\ lib_last.report.available_books =
             Cardinality({b \in Elems(library.books) : books[b].is_available})
       /\ lib_last.report.borrowed_books =
             Cardinality({b \in Elems(library.books) : ~books[b].is_available})

C24_Step ==
    /\ lib_last'.op = "Library.add_book" =>
          LET b == lib_last'.book
          IN  IF \E i \in DOMAIN library.books :
                    books[library.books[i]].isbn = books[b].isbn
              THEN lib_last'.ret = "False" /\ library' = library
              ELSE /\ lib_last'.ret = "True"
                   /\ library'.books = Append(library.books, b)
                   /\ library'.members = library.members
    /\ lib_last'.op = "Library.add_member" =>
          LET m == lib_last'.member
          IN  IF \E i \in DOMAIN library.members :
                    members[library.members[i]].id = members[m].id
              THEN lib_last'.ret = "False" /\ library' = library
              ELSE /\ lib_last'.ret = "True"
                   /\ library'.members = Append(library.members, m)
                   /\ library'.books = library.books

\* C24: after any sequence of add_book, remove_book and add_member calls a
\* Library holds no two books with one ISBN and no two members with one id:
\* add_book (add_member) returns False and leaves the collection as it was
\* when an entry with that ISBN (that id) is present, be it another object
\* with another title or name; generate_report always gives
\* available_books + borrowed_books = total_books = len(library).
C24_UniqueEntries == []C24_NoDuplicates /\ []C24_Report /\ [][C24_Step]_vars

\* add_book refused a Book object that is not in the catalog but shares its
\* ISBN with a held book of another title, while a member is registered
C24_Witness ==
    /\ lib_last.op = "Library.add_book"
    /\ lib_last.ret = "False"
    /\ lib_last.book \notin Elems(library.books)
    /\ \E b \in Elems(library.books) :
          /\ books[b].isbn = books[lib_last.book].isbn
          /\ books[b].title # books[lib_last.book].title
    /\ library.members # <<>>

====
